---- MODULE Spec2Model ----
(***************************************************************************)
(* A model of the simple HTTP file server: the request parser              *)
(* (src/http/request.rs), the response builder (src/http/response.rs) and  *)
(* the accept loop with its connection handler (src/main.rs).              *)
(*                                                                         *)
(* Text is modelled byte by byte: a Rust &str / String / Vec<u8> is a      *)
(* sequence of one-character strings, so that splitting, trimming,         *)
(* percent-decoding, URL-encoding and formatting are computed as the code  *)
(* computes them.  Only ASCII text occurs.                                  *)
(***************************************************************************)
EXTENDS Integers, Sequences, FiniteSets, TLC

(***************************************************************************)
(* Bytes and text helpers (the std::str operations the code calls).        *)
(***************************************************************************)
\* The zero byte the read buffer is initialised with, and two bytes that
\* have no TLA+ string escape: vertical tab and the first byte of the PNG
\* signature (0x89).  The backquote is written "BACKTICK" for the same reason.
NUL == "NUL"
VT == "VT"
X89 == "x89"
CR == "\r"
LF == "\n"
CRLF == <<CR, LF>>

\* The printable ASCII characters, in code order 32..126.
Printable == <<" ", "!", "\"", "#", "$", "%", "&", "'", "(", ")", "*", "+", ",", "-", ".", "/", "0", "1", "2", "3", "4", "5", "6", "7", "8", "9", ":", ";", "<", "=", ">", "?", "@", "A", "B", "C", "D", "E", "F", "G", "H", "I", "J", "K", "L", "M", "N", "O", "P", "Q", "R", "S", "T", "U", "V", "W", "X", "Y", "Z", "[", "\\", "]", "^", "_", "BACKTICK", "a", "b", "c", "d", "e", "f", "g", "h", "i", "j", "k", "l", "m", "n", "o", "p", "q", "r", "s", "t", "u", "v", "w", "x", "y", "z", "{", "|", "}", "~">>

Code(c) ==
    IF c = NUL THEN 0
    ELSE IF c = "\t" THEN 9
    ELSE IF c = LF THEN 10
    ELSE IF c = VT THEN 11
    ELSE IF c = "\f" THEN 12
    ELSE IF c = CR THEN 13
    ELSE 31 + (CHOOSE i \in 1..Len(Printable) : Printable[i] = c)

Chr(n) ==
    IF n = 0 THEN NUL
    ELSE IF n = 9 THEN "\t"
    ELSE IF n = 10 THEN LF
    ELSE IF n = 11 THEN VT
    ELSE IF n = 12 THEN "\f"
    ELSE IF n = 13 THEN CR
    ELSE IF n >= 32 /\ n <= 126 THEN Printable[n - 31]
    ELSE "?"

SetMin(S) == CHOOSE x \in S : \A y \in S : x <= y
SetMax(S) == CHOOSE x \in S : \A y \in S : x >= y

\* sub occurs in s at index i
OccursAt(sub, s, i) ==
    /\ i + Len(sub) - 1 <= Len(s)
    /\ \A k \in 1..Len(sub) : s[i + k - 1] = sub[k]

\* str::find: the index of the first occurrence of sub in s, 0 for None
Find(sub, s) ==
    IF \E i \in 1..Len(s) : OccursAt(sub, s, i)
    THEN CHOOSE i \in 1..Len(s) :
             OccursAt(sub, s, i) /\ \A j \in 1..(i - 1) : ~OccursAt(sub, s, j)
    ELSE 0

Contains(sub, s) == Find(sub, s) # 0

\* str::split_once: None, or the text before and after the first delimiter
split_once(s, delim) ==
    LET i == Find(delim, s)
    IN  IF i = 0
        THEN [some |-> FALSE, left |-> <<>>, right |-> <<>>]
        ELSE [some |-> TRUE,
              left |-> SubSeq(s, 1, i - 1),
              right |-> SubSeq(s, i + Len(delim), Len(s))]

\* u8::is_ascii_whitespace
AsciiWhitespace == {" ", "\t", LF, "\f", CR}
\* char::is_whitespace, restricted to ASCII
WhiteSpace == AsciiWhitespace \cup {VT}

\* str::split_ascii_whitespace: the maximal runs of non-whitespace bytes
RECURSIVE split_ascii_whitespace(_)
split_ascii_whitespace(s) ==
    IF s = <<>> THEN <<>>
    ELSE IF Head(s) \in AsciiWhitespace THEN split_ascii_whitespace(Tail(s))
    ELSE LET ws == {i \in 1..Len(s) : s[i] \in AsciiWhitespace}
             e == IF ws = {} THEN Len(s) + 1 ELSE SetMin(ws)
         IN  <<SubSeq(s, 1, e - 1)>> \o split_ascii_whitespace(SubSeq(s, e, Len(s)))

\* str::trim
trim(s) ==
    LET keep == {i \in 1..Len(s) : s[i] \notin WhiteSpace}
    IN  IF keep = {} THEN <<>> ELSE SubSeq(s, SetMin(keep), SetMax(keep))

\* str::trim_start_matches(c)
trim_start_matches(s, c) ==
    LET keep == {i \in 1..Len(s) : s[i] # c}
    IN  IF keep = {} THEN <<>> ELSE SubSeq(s, SetMin(keep), Len(s))

\* str::split(c): the pieces between the delimiters, empty pieces included
RECURSIVE split(_, _)
split(s, c) ==
    LET at == {i \in 1..Len(s) : s[i] = c}
    IN  IF at = {} THEN <<s>>
        ELSE <<SubSeq(s, 1, SetMin(at) - 1)>> \o split(SubSeq(s, SetMin(at) + 1, Len(s)), c)

\* [&str]::join(sep)
RECURSIVE join(_, _)
join(parts, sep) ==
    IF parts = <<>> THEN <<>>
    ELSE IF Len(parts) = 1 THEN parts[1]
    ELSE parts[1] \o sep \o join(Tail(parts), sep)

\* str::replace(from, to)
RECURSIVE replace(_, _, _)
replace(s, from, to) ==
    LET i == Find(from, s)
    IN  IF i = 0 THEN s
        ELSE SubSeq(s, 1, i - 1) \o to \o replace(SubSeq(s, i + Len(from), Len(s)), from, to)

\* the decimal digits of a usize, as format!("{}", n) prints it
RECURSIVE ToDecimal(_)
ToDecimal(n) ==
    IF n < 10 THEN <<Chr(48 + n)>>
    ELSE ToDecimal(n \div 10) \o <<Chr(48 + (n % 10))>>

(***************************************************************************)
(* src/http/request.rs                                                     *)
(***************************************************************************)
HTTP_1_1 == <<"H", "T", "T", "P", "/", "1", ".", "1">>
HTTP_2 == <<"H", "T", "T", "P", "/", "2">>
HTTP_2_0 == <<"H", "T", "T", "P", "/", "2", ".", "0">>

\* Method::new
Method_new(request) ==
    LET line == split_once(request, CRLF)
        m == split_once(line.left, <<" ">>)
    IN  IF line.some /\ m.some
        THEN IF m.left = <<"G", "E", "T">> THEN "Get"
             ELSE IF m.left = <<"P", "O", "S", "T">> THEN "Post"
             ELSE "Uninitialized"
        ELSE "Uninitialized"

\* Resource::new
Resource_new(request) ==
    LET line == split_once(request, CRLF)
        m == split_once(line.left, <<" ">>)
        r == split_once(m.right, <<" ">>)
    IN  IF line.some /\ m.some /\ r.some
        THEN [some |-> TRUE, path |-> trim_start_matches(r.left, "/")]
        ELSE [some |-> FALSE, path |-> <<>>]

UnknownProtocol == <<"U", "n", "k", "n", "o", "w", "n", " ", "p", "r", "o", "t", "o", "c", "o", "l", " ", "v", "e", "r", "s", "i", "o", "n", " ", "i", "n", " ">>

\* Version::from_str with a default in place of the error
Version_from_str_default(request) ==
    LET line == split_once(request, CRLF)
        splits == IF line.some THEN split_ascii_whitespace(line.left) ELSE <<>>
        hits == {i \in 1..Len(splits) : splits[i] \in {<<"H", "T", "T", "P", "/", "2">>, <<"H", "T", "T", "P", "/", "2", ".", "0">>}}
    IN  [ok |-> TRUE, version |-> IF hits = {} THEN "V1_1" ELSE "V2_0", msg |-> <<>>]

\* Version::from_str: the first token of the request line that names a
\* known version decides; an error carrying the request otherwise.
Version_from_str(request) ==
    LET line == split_once(request, CRLF)
        splits == IF line.some THEN split_ascii_whitespace(line.left) ELSE <<>>
        hits == {i \in 1..Len(splits) : splits[i] \in {HTTP_1_1, HTTP_2, HTTP_2_0}}
    IN  IF hits = {}
        THEN [ok |-> FALSE, version |-> "none", msg |-> UnknownProtocol \o request]
        ELSE [ok |-> TRUE,
              version |-> IF splits[SetMin(hits)] = HTTP_1_1 THEN "V1_1" ELSE "V2_0",
              msg |-> <<>>]

\* Version::new
Version_new(request) == Version_from_str(request)

\* HashMap::insert
MapInsert(map, k, v) == [x \in (DOMAIN map) \cup {k} |-> IF x = k THEN v ELSE map[x]]

\* the loop of HttpHeader::new over header_str.split_terminator("\r\n")
RECURSIVE HeaderLines(_, _)
HeaderLines(rest, map) ==
    IF rest = <<>> THEN [some |-> TRUE, headers |-> map]
    ELSE LET i == Find(CRLF, rest)
             line == IF i = 0 THEN rest ELSE SubSeq(rest, 1, i - 1)
             next == IF i = 0 THEN <<>> ELSE SubSeq(rest, i + 2, Len(rest))
             kv == split_once(line, <<":">>)
         IN  IF line = <<>> THEN [some |-> TRUE, headers |-> map]
             ELSE IF ~kv.some THEN [some |-> FALSE, headers |-> <<>>]
             ELSE HeaderLines(next, MapInsert(map, trim(kv.left), trim(kv.right)))

\* HttpHeader::new
HttpHeader_new(request) ==
    LET line == split_once(request, CRLF)
    IN  IF ~line.some THEN [some |-> FALSE, headers |-> <<>>]
        ELSE HeaderLines(line.right, <<>>)

\* struct HttpRequest, with the Result of HttpRequest::new folded in: ok is
\* FALSE and err holds the message when construction failed
HttpRequest(ok, err, method, resource, version, headers, request_body) ==
    [ok |-> ok, err |-> err, method |-> method, resource |-> resource,
     version |-> version, headers |-> headers, request_body |-> request_body]

\* the value of the request variable while no request has been parsed
NoRequest == HttpRequest(FALSE, <<>>, "Uninitialized", <<>>, "none", <<>>, <<>>)

\* HttpRequest::new
HttpRequest_new(request) ==
    LET resource == Resource_new(request)
        version == Version_new(request)
        headers == HttpHeader_new(request)
        body == split_once(request, CRLF \o CRLF)
    IN  IF ~version.ok
        THEN HttpRequest(FALSE, version.msg, "Uninitialized", <<>>, "none", <<>>, <<>>)
        ELSE HttpRequest(TRUE, <<>>,
                         Method_new(request),
                         IF resource.some THEN resource.path ELSE <<>>,
                         version.version,
                         IF headers.some THEN headers.headers ELSE <<>>,
                         IF body.some THEN body.right ELSE <<>>)

(***************************************************************************)
(* The file system the server runs on.  The tree is fixed except for the   *)
(* files another process may remove while the server runs.                 *)
(* Disk lists the nodes in the order read_dir yields them (depth first).   *)
(***************************************************************************)
Node(path, kind, content, target, readable) ==
    [path |-> path, kind |-> kind, content |-> content, target |-> target,
     readable |-> readable]

Disk == <<
    Node(<<>>, "dir", <<>>, <<>>, TRUE),
    Node(<<<<"e", "t", "c">>>>, "dir", <<>>, <<>>, TRUE),
    Node(<<<<"e", "t", "c">>, <<"p", "w">>>>, "file", <<"r", "o", "o", "t", ":", "x", ":", "0">>, <<>>, TRUE),
    Node(<<<<"s", "r", "v">>>>, "dir", <<>>, <<>>, TRUE),
    Node(<<<<"s", "r", "v">>, <<"p", "r", "i", "v">>>>, "dir", <<>>, <<>>, TRUE),
    Node(<<<<"s", "r", "v">>, <<"p", "r", "i", "v">>, <<"k", "e", "y", ".", "t", "x", "t">>>>, "file", <<"s", "e", "c", "r", "e", "t">>, <<>>, TRUE),
    Node(<<<<"s", "r", "v">>, <<"w", "w", "w">>>>, "dir", <<>>, <<>>, TRUE),
    Node(<<<<"s", "r", "v">>, <<"w", "w", "w">>, <<"a", ".", "t", "x", "t">>>>, "file", <<"h", "e", "l", "l", "o">>, <<>>, TRUE),
    Node(<<<<"s", "r", "v">>, <<"w", "w", "w">>, <<"s", "u", "b">>>>, "dir", <<>>, <<>>, TRUE),
    Node(<<<<"s", "r", "v">>, <<"w", "w", "w">>, <<"s", "u", "b">>, <<"b", " ", "c", ".", "m", "d">>>>, "file", <<"#", " ", "b">>, <<>>, TRUE),
    Node(<<<<"s", "r", "v">>, <<"w", "w", "w">>, <<"s", "u", "b">>, <<"d", "e", "e", "p">>>>, "dir", <<>>, <<>>, TRUE),
    Node(<<<<"s", "r", "v">>, <<"w", "w", "w">>, <<"s", "u", "b">>, <<"d", "e", "e", "p">>, <<"g", ".", "b", "i", "n">>>>, "file", <<"g", "g">>, <<>>, TRUE),
    Node(<<<<"s", "r", "v">>, <<"w", "w", "w">>, <<"i", "m", "g", ".", "t", "x", "t">>>>, "file", <<X89>> \o <<"P", "N", "G", ".">>, <<>>, TRUE),
    Node(<<<<"s", "r", "v">>, <<"w", "w", "w">>, <<"p", "i", "p", "e">>>>, "fifo", <<>>, <<>>, TRUE),
    Node(<<<<"s", "r", "v">>, <<"w", "w", "w">>, <<"l", "o", "c", "k", "e", "d", ".", "t", "x", "t">>>>, "file", <<"n", "o">>, <<>>, FALSE),
    Node(<<<<"s", "r", "v">>, <<"w", "w", "w">>, <<"n", "o", "p", "e", "r", "m">>>>, "dir", <<>>, <<>>, FALSE),
    Node(<<<<"s", "r", "v">>, <<"w", "w", "w">>, <<"o", "u", "t">>>>, "symlink", <<>>, <<<<"s", "r", "v">>, <<"p", "r", "i", "v">>>>, TRUE),
    Node(<<<<"s", "r", "v">>, <<"w", "w", "w">>, <<"t", "m", "p", ".", "t", "x", "t">>>>, "file", <<"t">>, <<>>, TRUE)
>>

\* std::env::current_dir(): the server root, /srv/www
ServerRoot == <<<<"s", "r", "v">>, <<"w", "w", "w">>>>
ServerRootStr == <<"/", "s", "r", "v", "/", "w", "w", "w">>

\* the files another process may remove while the server runs
Removable == {<<<<"s", "r", "v">>, <<"w", "w", "w">>, <<"t", "m", "p", ".", "t", "x", "t">>>>}

DiskIndex(path) == {i \in 1..Len(Disk) : Disk[i].path = path}
Present(path, gone) == DiskIndex(path) # {} /\ path \notin gone
Lookup(path) == Disk[CHOOSE i \in DiskIndex(path) : TRUE]

IsUnder(path, dir) ==
    Len(path) >= Len(dir) /\ SubSeq(path, 1, Len(dir)) = dir

\* the io::Error messages of the failing lookups
ENOENT == <<"N", "o", " ", "s", "u", "c", "h", " ", "f", "i", "l", "e", " ", "o", "r", " ", "d", "i", "r", "e", "c", "t", "o", "r", "y">>
ENOTDIR == <<"N", "o", "t", " ", "a", " ", "d", "i", "r", "e", "c", "t", "o", "r", "y">>

\* the walk of realpath(3) from directory cur over the remaining segments
RECURSIVE PathWalk(_, _, _)
PathWalk(cur, segs, gone) ==
    IF segs = <<>> THEN [ok |-> TRUE, path |-> cur, err |-> <<>>]
    ELSE IF Lookup(cur).kind # "dir" THEN [ok |-> FALSE, path |-> <<>>, err |-> ENOTDIR]
    ELSE IF Head(segs) \in {<<>>, <<".">>} THEN PathWalk(cur, Tail(segs), gone)
    ELSE IF Head(segs) = <<".", ".">>
         THEN PathWalk(IF cur = <<>> THEN cur ELSE SubSeq(cur, 1, Len(cur) - 1),
                       Tail(segs), gone)
    ELSE LET child == Append(cur, Head(segs))
         IN  IF ~Present(child, gone)
             THEN [ok |-> FALSE, path |-> <<>>, err |-> ENOENT]
             ELSE IF Lookup(child).kind = "symlink"
             THEN PathWalk(Lookup(child).target, Tail(segs), gone)
             ELSE PathWalk(child, Tail(segs), gone)

\* Path::canonicalize of an absolute path: the node it names, symbolic
\* links, "." and ".." resolved, or the error of the failing lookup
canonicalize(path, gone) == PathWalk(<<>>, Tail(split(path, "/")), gone)

\* Path::components().count() of a canonical path: the root directory
\* and one component per name
components_count(canonical) == 1 + Len(canonical)

\* Path::exists, Path::is_file, Path::is_dir (they follow symbolic links)
exists(path, gone) == canonicalize(path, gone).ok
is_file(path, gone) ==
    LET c == canonicalize(path, gone) IN c.ok /\ Lookup(c.path).kind = "file"
is_dir(path, gone) ==
    LET c == canonicalize(path, gone) IN c.ok /\ Lookup(c.path).kind = "dir"

\* PathBuf::join: an absolute argument replaces the base
path_join(base, path) ==
    IF path # <<>> /\ Head(path) = "/" THEN path
    ELSE IF base # <<>> /\ base[Len(base)] = "/" THEN base \o path
    ELSE base \o <<"/">> \o path

\* Path::file_name: the last component, unless it is ".."
file_name(path) ==
    LET comps == SelectSeq(split(path, "/"), LAMBDA c : c \notin {<<>>, <<".">>})
    IN  IF comps = <<>> \/ comps[Len(comps)] = <<".", ".">>
        THEN [some |-> FALSE, name |-> <<>>]
        ELSE [some |-> TRUE, name |-> comps[Len(comps)]]

\* Path::extension: the text after the last dot of the file name, if the
\* name has a dot that is not its first character
extension(path) ==
    LET f == file_name(path)
        dots == {i \in 1..Len(f.name) : f.name[i] = "."}
    IN  IF ~f.some \/ dots = {} \/ SetMax(dots) = 1
        THEN [some |-> FALSE, ext |-> <<>>]
        ELSE [some |-> TRUE, ext |-> SubSeq(f.name, SetMax(dots) + 1, Len(f.name))]

\* WalkDir::new(dir).min_depth(lo).max_depth(hi): the entries below dir
\* whose depth is in lo..hi, or an error when a directory it has to read
\* cannot be read.  Symbolic links are not followed.
WalkDir(dir, lo, hi, gone) ==
    LET below(n) == IsUnder(n.path, dir) /\ n.path \notin gone
        depth(n) == Len(n.path) - Len(dir)
        entries == SelectSeq(Disk, LAMBDA n : below(n) /\ depth(n) >= lo /\ depth(n) <= hi)
        unread == {i \in 1..Len(Disk) : /\ below(Disk[i])
                                        /\ depth(Disk[i]) < hi
                                        /\ Disk[i].kind = "dir"
                                        /\ ~Disk[i].readable}
    IN  [ok |-> unread = {}, entries |-> entries]

(***************************************************************************)
(* External crates: percent_encoding, url_escape, infer.                   *)
(***************************************************************************)
Digits == {"0", "1", "2", "3", "4", "5", "6", "7", "8", "9"}
UpperHex == {"A", "B", "C", "D", "E", "F"}
LowerHex == {"a", "b", "c", "d", "e", "f"}
Letters == {"A", "B", "C", "D", "E", "F", "G", "H", "I", "J", "K", "L", "M", "N", "O", "P", "Q", "R", "S", "T", "U", "V", "W", "X", "Y", "Z", "a", "b", "c", "d", "e", "f", "g", "h", "i", "j", "k", "l", "m", "n", "o", "p", "q", "r", "s", "t", "u", "v", "w", "x", "y", "z"}
IsHex(c) == c \in Digits \cup UpperHex \cup LowerHex
HexVal(c) ==
    IF c \in Digits THEN Code(c) - 48
    ELSE IF c \in UpperHex THEN Code(c) - 55
    ELSE Code(c) - 87
HexDigit(n) == IF n < 10 THEN Chr(48 + n) ELSE Chr(55 + n)

\* percent_decode_str(s).decode_utf8_lossy(): %XY becomes the byte XY, a
\* byte that is not ASCII becomes the replacement character
RECURSIVE percent_decode(_)
percent_decode(s) ==
    IF s = <<>> THEN <<>>
    ELSE IF Head(s) = "%" /\ Len(s) >= 3 /\ IsHex(s[2]) /\ IsHex(s[3])
    THEN LET byte == 16 * HexVal(s[2]) + HexVal(s[3])
         IN  <<IF byte >= 128 THEN "U+FFFD" ELSE Chr(byte)>>
                 \o percent_decode(SubSeq(s, 4, Len(s)))
    ELSE <<Head(s)>> \o percent_decode(Tail(s))

\* url_escape::encode_component: every byte but the letters, the digits
\* and - _ . ! ~ * ' ( ) is written %XY
RECURSIVE encode_component(_)
encode_component(s) ==
    IF s = <<>> THEN <<>>
    ELSE (IF Head(s) \in Letters \cup Digits \cup {"-", "_", ".", "!", "~", "*", "'", "(", ")"}
          THEN <<Head(s)>>
          ELSE <<"%", HexDigit(Code(Head(s)) \div 16), HexDigit(Code(Head(s)) % 16)>>)
         \o encode_component(Tail(s))

\* infer::get: the MIME type of a known signature (of its table, the PNG
\* signature is modelled)
infer_get(content) ==
    IF Len(content) >= 4 /\ SubSeq(content, 1, 4) = <<X89, "P", "N", "G">>
    THEN [some |-> TRUE, mime |-> <<"i", "m", "a", "g", "e", "/", "p", "n", "g">>]
    ELSE [some |-> FALSE, mime |-> <<>>]

(***************************************************************************)
(* src/http/response.rs                                                    *)
(***************************************************************************)
\* struct HttpResponse
HttpResponse(status, content_length, accept_ranges, response_body, current_path, content_type) ==
    [version |-> "V1_1",
     status |-> status,
     content_length |-> content_length,
     accept_ranges |-> accept_ranges,
     response_body |-> response_body,
     current_path |-> current_path,
     content_type |-> content_type]

\* the value of the response variable while no response has been built
NoResponse == HttpResponse("none", 0, "None", <<>>, <<>>, <<>>)

\* io::Result<HttpResponse>; Panic is the unwinding of the handler thread
Ok(response) == [kind |-> "Ok", response |-> response, err |-> <<>>]
Err(err) == [kind |-> "Err", response |-> NoResponse, err |-> err]
Panic == [kind |-> "Panic", response |-> NoResponse, err |-> <<>>]

base_url == <<"h", "t", "t", "p", ":", "/", "/", "l", "o", "c", "a", "l", "h", "o", "s", "t", ":", "5", "5", "0", "0">>
begin_html == <<"\n", " ", " ", " ", " ", " ", " ", " ", " ", " ", " ", " ", " ", " ", " ", " ", " ", "<", "!", "D", "O", "C", "T", "Y", "P", "E", " ", "h", "t", "m", "l", ">", " ", "\n", " ", " ", " ", " ", " ", " ", " ", " ", " ", " ", " ", " ", " ", " ", " ", " ", "<", "h", "t", "m", "l", ">", " ", "\n", " ", " ", " ", " ", " ", " ", " ", " ", " ", " ", " ", " ", " ", " ", " ", " ", "<", "h", "e", "a", "d", ">", " ", "\n", " ", " ", " ", " ", " ", " ", " ", " ", " ", " ", " ", " ", " ", " ", " ", " ", " ", " ", " ", " ", "<", "m", "e", "t", "a", " ", "c", "h", "a", "r", "s", "e", "t", "=", "\"", "u", "t", "f", "-", "8", "\"", ">", " ", "\n", " ", " ", " ", " ", " ", " ", " ", " ", " ", " ", " ", " ", " ", " ", " ", " ", "<", "/", "h", "e", "a", "d", ">", " ", "\n", " ", " ", " ", " ", " ", " ", " ", " ", " ", " ", " ", " ", " ", " ", " ", " ", "<", "b", "o", "d", "y", ">">>
end_html == <<"\n", " ", " ", " ", " ", " ", " ", " ", " ", " ", " ", " ", " ", " ", " ", " ", " ", "<", "/", "b", "o", "d", "y", ">", "\n", " ", " ", " ", " ", " ", " ", " ", " ", " ", " ", " ", " ", " ", " ", " ", " ", "<", "/", "h", "t", "m", "l", ">">>

\* the extensions served as text/plain when no signature matches
TextExtensions == {<<"t", "x", "t">>, <<"r", "s">>, <<"l", "o", "c", "k">>, <<"p", "n", "g">>, <<"j", "s", "o", "n">>, <<"T", "A", "G">>, <<"t", "o", "m", "l">>, <<"m", "d">>}

\* the blocked response with a body its content_length does not count
BlockedResponse_with_body(current_path) ==
    HttpResponse("NotFound", 0, "None", <<"B", "l", "o", "c", "k", "e", "d">>, current_path, <<"t", "e", "x", "t", "/", "p", "l", "a", "i", "n">>)

\* the response returned when the target has fewer components than the root
BlockedResponse(current_path) ==
    HttpResponse("NotFound", 0, "None", <<>>, current_path, <<"t", "e", "x", "t", "/", "p", "l", "a", "i", "n">>)

\* the choice of the content type of a file
FileContentType(content, new_path) ==
    IF infer_get(content).some THEN infer_get(content).mime
    ELSE IF extension(new_path).some /\ extension(new_path).ext \in TextExtensions
    THEN <<"t", "e", "x", "t", "/", "p", "l", "a", "i", "n">>
    ELSE <<"a", "p", "p", "l", "i", "c", "a", "t", "i", "o", "n", "/", "o", "c", "t", "e", "t", "-", "s", "t", "r", "e", "a", "m">>

\* the branch for a regular file: File::open fails on a file that may not
\* be read
FileResponse(current_path, new_path, gone) ==
    LET node == Lookup(canonicalize(new_path, gone).path)
        content == node.content
    IN  IF ~node.readable THEN Err(<<"P", "e", "r", "m", "i", "s", "s", "i", "o", "n", " ", "d", "e", "n", "i", "e", "d">>)
        ELSE Ok(HttpResponse("OK", Len(content), "Bytes", content, current_path,
                             FileContentType(content, new_path)))

\* the path of the "go back" link: the resource without its last segment
one_step_back_path(resource) ==
    LET components == split(resource, "/")
    IN  IF Len(components) >= 1
        THEN join(SubSeq(components, 1, Len(components) - 1), <<"/">>)
        ELSE <<"/">>

go_back_link(resource) ==
    <<"<", "a", " ", "h", "r", "e", "f", "=", "\"">> \o base_url \o <<"/">> \o encode_component(one_step_back_path(resource))
        \o <<"\"", ">", "G", "o", " ", "b", "a", "c", "k", " ", "u", "p", " ", "a", " ", "d", "i", "r", "e", "c", "t", "o", "r", "y", "<", "/", "a", ">">>

\* the <div> written for one directory entry
EntryHtml(resource, entry, gone) ==
    LET name == entry.path[Len(entry.path)]
        href == base_url \o <<"/">> \o resource \o <<"/">> \o encode_component(name)
        target == PathWalk(SubSeq(entry.path, 1, Len(entry.path) - 1), <<name>>, gone)
        dir == target.ok /\ Lookup(target.path).kind = "dir"
    IN  <<"<", "d", "i", "v", ">", "<", "a", " ", "h", "r", "e", "f", "=", "\"">> \o href \o <<"\"", ">">> \o name \o (IF dir THEN <<"/">> ELSE <<>>)
            \o <<"<", "/", "a", ">", "<", "/", "d", "i", "v", ">">>

RECURSIVE EntriesHtml(_, _, _)
EntriesHtml(resource, entries, gone) ==
    IF entries = <<>> THEN <<>>
    ELSE EntryHtml(resource, Head(entries), gone) \o EntriesHtml(resource, Tail(entries), gone)

\* the walk without its depth limit of one
ListingWalk_deep(dir, gone) == WalkDir(dir, 1, 2, gone)

\* the entries the listing walks: WalkDir::new(new_path).max_depth(1).min_depth(1)
ListingWalk(dir, gone) == WalkDir(dir, 1, 1, gone)

\* the branch for a directory; entry.unwrap() panics on a walk error
DirectoryResponse(current_path, resource, new_path, gone) ==
    LET dir == canonicalize(new_path, gone).path
        walk == ListingWalk(dir, gone)
        decoded_path == replace(resource, <<"%", "2", "F">>, <<"/">>)
        header == <<"<", "h", "1", ">", "C", "u", "r", "r", "e", "n", "t", "l", "y", " ", "i", "n", " ">> \o decoded_path \o <<"<", "/", "h", "1", ">">> \o go_back_link(resource)
                      \o <<"<", "b", "r", ">", "<", "h", "r", ">">>
        full_html == begin_html \o header \o EntriesHtml(resource, walk.entries, gone)
                         \o end_html
    IN  IF ~walk.ok THEN Panic
        ELSE Ok(HttpResponse("OK", Len(full_html), "None", full_html, current_path,
                             <<"t", "e", "x", "t", "/", "h", "t", "m", "l">>))

\* the branch for a path that does not exist
NotFoundResponse(current_path) ==
    LET not_found_body ==
            <<"<", "h", "t", "m", "l", ">", "<", "b", "o", "d", "y", ">", "<", "h", "1", ">", "4", "0", "4", " ", "N", "o", "t", " ", "F", "o", "u", "n", "d", "<", "/", "h", "1", ">", "<", "p", ">", "T", "h", "e", " ", "r", "e", "q", "u", "e", "s", "t", "e", "d", " ", "r", "e", "s", "o", "u", "r", "c", "e", " ", "<", "s", "t", "r", "o", "n", "g", ">">>
                \o current_path
                \o <<"<", "/", "s", "t", "r", "o", "n", "g", ">", " ", "w", "a", "s", " ", "n", "o", "t", " ", "f", "o", "u", "n", "d", " ", "o", "n", " ", "t", "h", "i", "s", " ", "s", "e", "r", "v", "e", "r", ".", "<", "/", "p", ">", "<", "/", "b", "o", "d", "y", ">", "<", "/", "h", "t", "m", "l", ">">>
    IN  Ok(HttpResponse("NotFound", Len(not_found_body), "None", not_found_body,
                        current_path, <<"t", "e", "x", "t", "/", "h", "t", "m", "l">>))

\* the defaults returned for a path that exists and is neither a file nor
\* a directory
DefaultResponse(current_path) ==
    Ok(HttpResponse("NotFound", 0, "None", <<>>, current_path, <<>>))

\* HttpResponse::new up to the containment check: an error of
\* canonicalize, the blocked response, or "Continue"
ContainmentCheck(path, gone) ==
    LET resource == percent_decode(path)
        new_path == path_join(ServerRootStr, resource)
        root == canonicalize(ServerRootStr, gone)
        target == canonicalize(new_path, gone)
    IN  IF ~root.ok THEN Err(root.err)
        ELSE IF ~target.ok THEN Err(target.err)
        ELSE IF components_count(root.path) > components_count(target.path)
        THEN Ok(BlockedResponse(path))
        ELSE [kind |-> "Continue", response |-> NoResponse, err |-> <<>>]

\* HttpResponse::new after the containment check
BuildResponse(path, gone) ==
    LET resource == percent_decode(path)
        new_path == path_join(ServerRootStr, resource)
    IN  IF exists(new_path, gone)
        THEN IF is_file(new_path, gone) THEN FileResponse(path, new_path, gone)
             ELSE IF is_dir(new_path, gone)
             THEN DirectoryResponse(path, resource, new_path, gone)
             ELSE DefaultResponse(path)
        ELSE NotFoundResponse(path)

\* impl Display for ResponseStatus
ResponseStatus_fmt(status) == IF status = "OK" THEN <<"2", "0", "0", " ", "O", "K">> ELSE <<"4", "0", "4", " ", "N", "o", "t", " ", "F", "o", "u", "n", "d">>

(***************************************************************************)
(* src/main.rs: the accept loop and the connection handler.                *)
(***************************************************************************)
\* the size of the read buffer of handle_client
BufferSize == 1024

\* bounds of the model
MaxBacklog == 1
MaxCounter == 2
MaxPartial == 1

\* what clients send: every target with a plain request line, and the
\* request lines and tails that exercise the parser
Targets == {
    <<"/">>, <<"/", "a", ".", "t", "x", "t">>, <<"/", "s", "u", "b">>, <<"/", "s", "u", "b", "/", "b", "%", "2", "0", "c", ".", "m", "d">>, <<"/", "s", "u", "b", "/", "d", "e", "e", "p", "/", "g", ".", "b", "i", "n">>, <<"/", "i", "m", "g", ".", "t", "x", "t">>,
    <<"/", "m", "i", "s", "s", "i", "n", "g", ".", "t", "x", "t">>, <<"/", "a", ".", "t", "x", "t", "/">>, <<"/", "p", "i", "p", "e">>, <<"/", "l", "o", "c", "k", "e", "d", ".", "t", "x", "t">>, <<"/", "n", "o", "p", "e", "r", "m">>, <<"/", "t", "m", "p", ".", "t", "x", "t">>,
    <<"/", ".", ".">>, <<"/", "%", "2", "E", "%", "2", "E", "/", "%", "2", "e", "%", "2", "e">>, <<"/", ".", ".", "/", "p", "r", "i", "v", "/", "k", "e", "y", ".", "t", "x", "t">>, <<"/", ".", ".", "%", "2", "F", "p", "r", "i", "v">>, <<"/", "%", "2", "F", "e", "t", "c", "%", "2", "F", "p", "w">>,
    <<"/", "o", "u", "t", "/", "k", "e", "y", ".", "t", "x", "t">>}
Methods == {<<"G", "E", "T">>, <<"P", "O", "S", "T">>, <<"B", "R", "E", "W">>}
VersionTexts == {
    <<" ", "H", "T", "T", "P", "/", "1", ".", "1">>, <<" ", "H", "T", "T", "P", "/", "1", ".", "0">>, <<" ", "H", "T", "T", "P", "/", "2">>, <<" ", "H", "T", "T", "P", "/", "2", ".", "0">>, <<" ", "H", "T", "T", "P", "/", "3">>, <<>>,
    <<" ", "h", "t", "t", "p", "/", "1", ".", "1">>, <<" ", "H", "T", "T", "P", "/", "1", ".", "0", " ", "H", "T", "T", "P", "/", "1", ".", "1">>, <<"\t", "H", "T", "T", "P", "/", "2", ".", "0", " ", "H", "T", "T", "P", "/", "1", ".", "1">>}
Tails == {<<"\r", "\n", "\r", "\n">>, <<"\r", "\n", "H", "o", "s", "t", ":", " ", "x", "\r", "\n", "\r", "\n", "h", "i">>, <<"\r", "\n", "b", "a", "d", "\r", "\n", "\r", "\n">>, <<>>}
Requests ==
    {<<"G", "E", "T", " ">> \o t \o <<" ", "H", "T", "T", "P", "/", "1", ".", "1", "\r", "\n", "\r", "\n">> : t \in Targets}
        \cup {m \o <<" ", "/", "a", ".", "t", "x", "t">> \o v \o <<"\r", "\n", "\r", "\n">> : m \in Methods, v \in VersionTexts}
        \cup {<<"G", "E", "T", " ", "/", "a", ".", "t", "x", "t">> \o v \o t : v \in {<<" ", "H", "T", "T", "P", "/", "1", ".", "1">>, <<" ", "H", "T", "T", "P", "/", "1", ".", "0">>}, t \in Tails}

VARIABLES
    servePc,    \* where serve is: "accept" (in listener.incoming()), "join", "returned"
    counter,    \* serve's counter of joined connections
    joined,     \* what the last join() returned to serve: "none", "Ok", "Err", "Panic"
    backlog,    \* connections waiting in the listener's queue
    gone,       \* the files removed from the disk so far
    hpc,        \* where the handler thread is in handle_client
    buffer,     \* the bytes read into handle_client's buffer (the rest of it is zero)
    request,    \* handle_client's request
    response,   \* handle_client's response
    result,     \* what the handler thread ended with
    wire        \* the bytes written to the connection

vars == <<servePc, counter, joined, backlog, gone, hpc, buffer, request, response, result, wire>>
serveVars == <<servePc, counter, joined>>
handlerVars == <<hpc, buffer, request, response, result, wire>>

NoResult == [kind |-> "none", err |-> <<>>]
Failed(err) == [kind |-> "Err", err |-> err]
Panicked == [kind |-> "Panic", err |-> <<>>]
Succeeded == [kind |-> "Ok", err |-> <<>>]

Init ==
    /\ servePc = "accept"
    /\ counter = 0
    /\ joined = "none"
    /\ backlog = 0
    /\ gone = {}
    /\ hpc = "idle"
    /\ buffer = <<>>
    /\ request = NoRequest
    /\ response = NoResponse
    /\ result = NoResult
    /\ wire = <<>>

\* a client connects: the kernel queues the connection
ClientConnect ==
    /\ backlog < MaxBacklog
    /\ backlog' = backlog + 1
    /\ UNCHANGED <<serveVars, gone, handlerVars>>

\* another process removes a file
ExternalUnlink ==
    /\ \E p \in Removable \ gone : gone' = gone \cup {p}
    /\ UNCHANGED <<serveVars, backlog, handlerVars>>

\* incoming() yields Err (the queued connection was aborted): the error is
\* printed and the loop goes on
AcceptFail ==
    /\ servePc = "accept"
    /\ backlog > 0
    /\ backlog' = backlog - 1
    /\ UNCHANGED <<serveVars, gone, handlerVars>>

\* incoming() yields a stream: serve spawns the handler thread and joins it
Accept ==
    /\ servePc = "accept"
    /\ backlog > 0
    /\ counter < MaxCounter
    /\ backlog' = backlog - 1
    /\ servePc' = "join"
    /\ hpc' = "read"
    /\ UNCHANGED <<counter, joined, gone, buffer, request, response, result, wire>>

\* the numbers of bytes one read or write call may transfer of len bytes:
\* all of them, or fewer
Transfers(len) == {len} \cup {n \in 0..MaxPartial : n < len}

\* String::from_utf8_lossy(&buffer): the buffer is BufferSize zero bytes
\* with the bytes read so far (the value of the variable buffer) stored
\* over its start
buf_str(read) ==
    [i \in 1..BufferSize |-> IF i <= Len(read) THEN read[i] ELSE NUL]

\* stream.read(&mut buffer)?
Read ==
    /\ hpc = "read"
    /\ \E data \in Requests :
         \E n \in Transfers(IF Len(data) < BufferSize THEN Len(data) ELSE BufferSize) :
            buffer' = SubSeq(data, 1, n)
    /\ hpc' = "parse"
    /\ UNCHANGED <<serveVars, backlog, gone, request, response, result, wire>>

ReadFail ==
    /\ hpc = "read"
    /\ hpc' = "done"
    /\ result' = Failed(<<"C", "o", "n", "n", "e", "c", "t", "i", "o", "n", " ", "r", "e", "s", "e", "t", " ", "b", "y", " ", "p", "e", "e", "r">>)
    /\ UNCHANGED <<serveVars, backlog, gone, buffer, request, response, wire>>

\* the parse step answering a bad request before it returns the error
ParseRequest_answering ==
    /\ hpc = "parse"
    /\ LET parsed == HttpRequest_new(buf_str(buffer))
       IN  IF parsed.ok
           THEN /\ request' = parsed
                /\ hpc' = "response"
                /\ UNCHANGED <<result, wire>>
           ELSE /\ hpc' = "done"
                /\ result' = Failed(parsed.err)
                /\ wire' = <<"H", "T", "T", "P", "/", "1", ".", "1", " ", "4", "0", "0", " ", "B", "a", "d", " ", "R", "e", "q", "u", "e", "s", "t", "\r", "\n", "\r", "\n">>
                /\ UNCHANGED request
    /\ UNCHANGED <<serveVars, backlog, gone, buffer, response>>

\* HttpRequest::new(&buf_str)?
ParseRequest ==
    /\ hpc = "parse"
    /\ LET parsed == HttpRequest_new(buf_str(buffer))
       IN  IF parsed.ok
           THEN /\ request' = parsed
                /\ hpc' = "response"
                /\ UNCHANGED result
           ELSE /\ hpc' = "done"
                /\ result' = Failed(parsed.err)
                /\ UNCHANGED request
    /\ UNCHANGED <<serveVars, backlog, gone, buffer, response, wire>>

\* request.response()?, first part: HttpResponse::new up to the containment check
CheckContainment ==
    /\ hpc = "response"
    /\ LET checked == ContainmentCheck(request.resource, gone)
       IN  IF checked.kind = "Continue"
           THEN /\ hpc' = "build"
                /\ UNCHANGED <<response, result>>
           ELSE IF checked.kind = "Ok"
           THEN /\ hpc' = "write_headers"
                /\ response' = checked.response
                /\ UNCHANGED result
           ELSE /\ hpc' = "done"
                /\ result' = Failed(checked.err)
                /\ UNCHANGED response
    /\ UNCHANGED <<serveVars, backlog, gone, buffer, request, wire>>

\* request.response()?, second part: the rest of HttpResponse::new
Build ==
    /\ hpc = "build"
    /\ LET built == BuildResponse(request.resource, gone)
       IN  IF built.kind = "Ok"
           THEN /\ hpc' = "write_headers"
                /\ response' = built.response
                /\ UNCHANGED result
           ELSE /\ hpc' = "done"
                /\ result' = IF built.kind = "Panic" THEN Panicked ELSE Failed(built.err)
                /\ UNCHANGED response
    /\ UNCHANGED <<serveVars, backlog, gone, buffer, request, wire>>

\* the status line and headers handle_client formats
ResponseHeaders(resp) ==
    <<"H", "T", "T", "P", "/", "1", ".", "1", " ", "2", "0", "0", " ", "O", "K", "\r", "\n", "C", "o", "n", "t", "e", "n", "t", "-", "L", "e", "n", "g", "t", "h", ":", " ">> \o ToDecimal(resp.content_length)
        \o <<"\r", "\n", "C", "o", "n", "t", "e", "n", "t", "-", "T", "y", "p", "e", ":", " ">> \o resp.content_type \o <<"\r", "\n", "\r", "\n">>

\* stream.write(headers.as_bytes())?
WriteHeaders ==
    /\ hpc = "write_headers"
    /\ \E n \in Transfers(Len(ResponseHeaders(response))) :
         wire' = wire \o SubSeq(ResponseHeaders(response), 1, n)
    /\ hpc' = "write_body"
    /\ UNCHANGED <<serveVars, backlog, gone, buffer, request, response, result>>

\* stream.write(&response.response_body)?
WriteBody ==
    /\ hpc = "write_body"
    /\ \E n \in Transfers(Len(response.response_body)) :
         wire' = wire \o SubSeq(response.response_body, 1, n)
    /\ hpc' = "flush"
    /\ UNCHANGED <<serveVars, backlog, gone, buffer, request, response, result>>

\* stream.flush()?; Ok(())
Flush ==
    /\ hpc = "flush"
    /\ hpc' = "done"
    /\ result' = Succeeded
    /\ UNCHANGED <<serveVars, backlog, gone, buffer, request, response, wire>>

\* a write or the flush fails
WriteFail ==
    /\ hpc \in {"write_headers", "write_body", "flush"}
    /\ hpc' = "done"
    /\ result' = Failed(<<"B", "r", "o", "k", "e", "n", " ", "p", "i", "p", "e">>)
    /\ UNCHANGED <<serveVars, backlog, gone, buffer, request, response, wire>>

\* serve unwrapping the result of join(): a panic of the handler ends it
AfterJoin_unwrap(kind) == IF kind = "Panic" THEN "returned" ELSE "accept"

\* where serve goes after join() returned the given outcome of the thread
AfterJoin(kind) == "accept"

\* join() returns: Err(_) for a thread that panicked, continue; Ok(_)
\* otherwise (whatever handle_client returned), the counter is incremented.
\* The stream is dropped with the thread.
Join ==
    /\ servePc = "join"
    /\ hpc = "done"
    /\ joined' = result.kind
    /\ counter' = IF result.kind = "Panic" THEN counter ELSE counter + 1
    /\ servePc' = AfterJoin(result.kind)
    /\ hpc' = "idle"
    /\ buffer' = <<>>
    /\ request' = NoRequest
    /\ response' = NoResponse
    /\ result' = NoResult
    /\ wire' = <<>>
    /\ UNCHANGED <<backlog, gone>>

Next ==
    \/ ClientConnect
    \/ ExternalUnlink
    \/ AcceptFail
    \/ Accept
    \/ Read
    \/ ReadFail
    \/ ParseRequest
    \/ CheckContainment
    \/ Build
    \/ WriteHeaders
    \/ WriteBody
    \/ Flush
    \/ WriteFail
    \/ Join

Spec == Init /\ [][Next]_vars

(***************************************************************************)
(* The properties.                                                         *)
(***************************************************************************)
\* the text handle_client parses
ReceivedText == buf_str(buffer)

\* the canonical form of the requested path: percent-decoded, joined to
\* the root, canonicalized
RequestedTarget ==
    canonicalize(path_join(ServerRootStr, percent_decode(request.resource)), gone)

Built == response.status # "none"

\* C1: whenever a response has been built for a requested path whose
\* canonical form lies outside the server root, it is the blocked
\* response (NotFound, empty body), never file bytes or a listing.
C1_Containment ==
    (request.ok /\ Built /\ RequestedTarget.ok /\ ~IsUnder(RequestedTarget.path, ServerRoot))
        => response = BlockedResponse(request.resource)

\* the decoded path climbs above the root on the way, or is absolute
RECURSIVE ClimbsOut(_, _)
ClimbsOut(segs, depth) ==
    IF segs = <<>> THEN FALSE
    ELSE IF Head(segs) \in {<<>>, <<".">>} THEN ClimbsOut(Tail(segs), depth)
    ELSE IF Head(segs) = <<".", ".">>
         THEN depth = 0 \/ ClimbsOut(Tail(segs), depth - 1)
    ELSE ClimbsOut(Tail(segs), depth + 1)
StaysInside(resource) ==
    (resource = <<>> \/ Head(resource) # "/") /\ ~ClimbsOut(split(resource, "/"), 0)

\* the 404 page that names the requested path
IsNotFoundPage(resp, path) ==
    /\ resp.status = "NotFound"
    /\ resp.content_type = <<"t", "e", "x", "t", "/", "h", "t", "m", "l">>
    /\ Contains(path, resp.response_body)

\* C2: a step of HttpResponse::new taken for a parsed request whose
\* decoded path stays inside the root and names nothing that exists never
\* ends in an error, and the response it builds is the NotFound page,
\* text/html, with the requested path in its body.
C2_NotFound ==
    [][(/\ hpc \in {"response", "build"}
        /\ hpc' # hpc
        /\ request.ok
        /\ StaysInside(percent_decode(request.resource))
        /\ ~RequestedTarget.ok
        /\ RequestedTarget.err = ENOENT)
         => (/\ result'.kind = "none"
             /\ hpc' = "write_headers"
             /\ IsNotFoundPage(response', request.resource))]_vars

\* C3: the content_length of every response HttpResponse::new returned is
\* the number of bytes of its body.
C3_ContentLength == response.content_length = Len(response.response_body)

\* a NotFound response with a body has been built (the page for a file
\* removed between the containment check and the existence test)
C3_Witness ==
    /\ response.status = "NotFound"
    /\ Len(response.response_body) > 0
    /\ response.content_length > 0

\* the version the spec lists and the code does not know
HTTP_1_0 == <<"H", "T", "T", "P", "/", "1", ".", "0">>
KnownVersions == {HTTP_1_0, HTTP_1_1, HTTP_2, HTTP_2_0}

\* the whitespace-separated tokens of the request line: the text before
\* the first CRLF
RequestLineTokens(text) ==
    LET line == split_once(text, CRLF)
    IN  IF line.some THEN split_ascii_whitespace(line.left) ELSE <<>>

VersionTokens(text) ==
    {i \in 1..Len(RequestLineTokens(text)) : RequestLineTokens(text)[i] \in KnownVersions}

\* C4: parsing a request whose request line has no token equal to
\* HTTP/1.0, HTTP/1.1, HTTP/2 or HTTP/2.0 ends the handler with the
\* version error, which carries the request text; no request is built.
C4_VersionRejection ==
    [][(hpc = "parse" /\ hpc' # "parse" /\ VersionTokens(ReceivedText) = {})
         => (/\ hpc' = "done"
             /\ request' = NoRequest
             /\ result' = Failed(UnknownProtocol \o ReceivedText))]_vars

\* a request line with a method, a path and an unknown version was
\* rejected with the version error
C4_Witness ==
    /\ hpc = "done"
    /\ result.kind = "Err"
    /\ result.err = UnknownProtocol \o ReceivedText
    /\ RequestLineTokens(ReceivedText) = <<<<"G", "E", "T">>, <<"/", "a", ".", "t", "x", "t">>, <<"H", "T", "T", "P", "/", "3">>>>

\* the version a token names
VersionOf(token) ==
    IF token = HTTP_1_0 THEN "V1_0"
    ELSE IF token = HTTP_1_1 THEN "V1_1"
    ELSE "V2_0"

\* C5: parsing a request whose request line has a token equal to
\* HTTP/1.0, HTTP/1.1, HTTP/2 or HTTP/2.0 succeeds, and the first such
\* token decides the version.
C5_VersionAcceptance ==
    [][(hpc = "parse" /\ hpc' # "parse" /\ VersionTokens(ReceivedText) # {})
         => (/\ request'.ok
             /\ request'.version =
                   VersionOf(RequestLineTokens(ReceivedText)[SetMin(VersionTokens(ReceivedText))]))]_vars

\* C6: while a handler has not finished, a waiting connection can be
\* accepted.
C6_AcceptNotBlocked ==
    (hpc \notin {"idle", "done"} /\ backlog > 0 /\ counter < MaxCounter)
        => ENABLED Accept

\* C7: serve never returns; after a handler that failed or panicked has
\* been joined serve is back in the accept loop, and a waiting connection
\* can be accepted.
C7_FailureIsolation ==
    /\ servePc # "returned"
    /\ hpc = "idle" => servePc = "accept"
    /\ (joined \in {"Err", "Panic"} /\ hpc = "idle" /\ backlog > 0 /\ counter < MaxCounter)
          => ENABLED Accept

\* after a handler panicked, the next connection was served to the end
C7_Witness ==
    /\ joined = "Panic"
    /\ hpc = "done"
    /\ result.kind = "Ok"

\* the links of an HTML text: for each <a href="..."> its href and its text
AnchorOpen == <<"<", "a", " ", "h", "r", "e", "f", "=", "\"">>
AnchorStarts(html) == {i \in 1..Len(html) : OccursAt(AnchorOpen, html, i)}
LinkAt(html, i) ==
    LET rest == SubSeq(html, i + Len(AnchorOpen), Len(html))
        href == split_once(rest, <<"\"", ">">>)
        text == split_once(href.right, <<"<", "/", "a", ">">>)
    IN  [href |-> href.left, text |-> text.left]

\* the names of the immediate children of a directory
ChildNames(dir) ==
    {Disk[i].path[Len(Disk[i].path)] :
        i \in {j \in 1..Len(Disk) : /\ Len(Disk[j].path) = Len(dir) + 1
                                     /\ IsUnder(Disk[j].path, dir)
                                     /\ Disk[j].path \notin gone}}

\* the link of a child of dir: the href ends in the percent-encoded name,
\* the text is the name (followed by a slash if the child is a directory)
IsChildLink(link, resource, dir, name) ==
    LET prefix == base_url \o <<"/">> \o resource \o <<"/">>
        encoded == SubSeq(link.href, Len(prefix) + 1, Len(link.href))
        child == PathWalk(dir, <<name>>, gone)
    IN  /\ Len(link.href) > Len(prefix)
        /\ SubSeq(link.href, 1, Len(prefix)) = prefix
        /\ percent_decode(encoded) = name
        /\ \A k \in 1..Len(encoded) : encoded[k] \notin {" ", "/", "\"", "<", ">"}
        /\ link.text = IF child.ok /\ Lookup(child.path).kind = "dir"
                       THEN name \o <<"/">> ELSE name

IsGoUpLink(link) ==
    /\ link.text = <<"G", "o", " ", "b", "a", "c", "k", " ", "u", "p", " ", "a", " ", "d", "i", "r", "e", "c", "t", "o", "r", "y">>
    /\ SubSeq(link.href, 1, Len(base_url) + 1) = base_url \o <<"/">>

ListsExactlyTheChildren(html, resource, dir) ==
    /\ Cardinality(AnchorStarts(html)) = 1 + Cardinality(ChildNames(dir))
    /\ Cardinality({i \in AnchorStarts(html) : IsGoUpLink(LinkAt(html, i))}) = 1
    /\ \A name \in ChildNames(dir) :
          Cardinality({i \in AnchorStarts(html) :
                          IsChildLink(LinkAt(html, i), resource, dir, name)}) = 1

\* C8: the body built for a directory has exactly one link for each
\* immediate child of the directory, its name percent-encoded in the href
\* and shown as the text, and one "go up" link, and no other link.
C8_ListingCompleteness ==
    [][(/\ hpc = "build"
        /\ hpc' = "write_headers"
        /\ RequestedTarget.ok
        /\ Lookup(RequestedTarget.path).kind = "dir")
         => ListsExactlyTheChildren(response'.response_body,
                                    percent_decode(request.resource),
                                    RequestedTarget.path)]_vars

\* the listing of a directory that has a file, a subdirectory and a
\* grandchild has been built
C8_Witness ==
    /\ Built
    /\ response.status = "OK"
    /\ response.content_type = <<"t", "e", "x", "t", "/", "h", "t", "m", "l">>
    /\ request.resource = <<"s", "u", "b">>
    /\ Contains(<<"\"", ">", "d", "e", "e", "p", "/", "<", "/", "a", ">">>, response.response_body)

\* C9: the status line on the wire carries the status of the response.
C9_StatusLine ==
    (Built /\ Contains(CRLF, wire))
        => split_once(wire, CRLF).left = <<"H", "T", "T", "P", "/", "1", ".", "1", " ">> \o ResponseStatus_fmt(response.status)

\* C10: nothing is written to the connection unless both the request and
\* the response have been constructed: a handler that failed in the read,
\* the parse or the response build has written no byte.
C10_NoResponseOnFailure ==
    (~request.ok \/ ~Built) => wire = <<>>

\* the handler ended with the error of the response build, with a parsed
\* request and nothing written
C10_Witness ==
    /\ hpc = "done"
    /\ request.ok
    /\ result = Failed(<<"P", "e", "r", "m", "i", "s", "s", "i", "o", "n", " ", "d", "e", "n", "i", "e", "d">>)
    /\ wire = <<>>
====
